---- MODULE Spec2Model ----
(***************************************************************************)
(* Capacity tracker (src/cap_track.py): the aggregation engine behind the  *)
(* weekly designer-availability report.                                    *)
(*                                                                         *)
(* Conventions of the model                                                *)
(*  - A Python dict is an insertion-ordered association list: a sequence   *)
(*    of <<key, value>> pairs with distinct keys.                          *)
(*  - A Python set is a TLA+ set; where the code iterates over a set the   *)
(*    iteration order is chosen nondeterministically.                      *)
(*  - Hour amounts (floats in the code) are integers counting ticks of     *)
(*    1/TicksPerHour hour; datetimes are integers counting the same ticks. *)
(*  - A backend field is None, a scalar id, or an [id, label] pair.        *)
(***************************************************************************)
EXTENDS Integers, Sequences, FiniteSets, TLC

VARIABLES
    \* get_availability_guess_coded: arguments and returned pair
    timesheet_hours, scheduled_hours, available_hours, guess,
    \* aggregate_project_breakdowns: argument and returned dict
    project_breakdown_dict, aggregated_breakdown,
    \* format_project_breakdown_for_employee: argument, locals at return
    breakdown_for_employee, total_count, project_strings, final_projects_str,
    \* get_sunday_friday_range: the clock's date and the returned pair
    today, start_of_week, end_of_week,
    \* deadline bucketing: the deadline strings, the clock, the three counts
    aggregated_deadlines, now, red, yellow, green,
    \* the functions that have returned
    returned,
    \* the backend's tables, as its queries return them
    employees, slots, timesheets, tasks,
    \* main: its locals when the run ends, how it ended, and how many runs
    \* the session has made
    designer_ids, timesheet_dict, scheduled_dict, subtask_cat_dict, parent_dd_dict,
    designer_info_list, outcome, runs,
    \* what the previous run of the session produced
    prev_designer_info_list, prev_aggregated_breakdown,
    \* the process configuration (secret store, environment) and the
    \* backend's answer to an authentication call
    secrets, environ, auth_reply,
    \* main: the urgent-deadline listing, the backend calls of the run in the
    \* order made, the error shown, and whether the document was built
    deadlines_details, calls, error, document

classifyVars == <<timesheet_hours, scheduled_hours, available_hours, guess>>
aggVars == <<project_breakdown_dict, aggregated_breakdown>>
fmtVars == <<breakdown_for_employee, total_count, project_strings, final_projects_str>>

windowVars == <<today, start_of_week, end_of_week>>
bucketVars == <<aggregated_deadlines, now, red, yellow, green>>

configVars == <<secrets, environ, auth_reply>>
backendVars == <<employees, slots, timesheets, tasks>>
mainVars ==
    <<designer_ids, timesheet_dict, scheduled_dict, subtask_cat_dict, parent_dd_dict,
      designer_info_list, outcome, runs, prev_designer_info_list,
      prev_aggregated_breakdown, deadlines_details, calls, error, document>>

vars ==
    <<classifyVars, aggVars, fmtVars, windowVars, bucketVars, returned, configVars,
      backendVars, mainVars>>

\* Python's None where it is used as a dict key or a category
None == "<None>"

(***************************************************************************)
(* Bounds and program constants                                            *)
(***************************************************************************)
\* resolution of hour amounts: ticks per hour
TicksPerHour == 2
\* largest hour amount (in hours) fed to the classifier
MaxHours == 45
\* largest over-scheduling correction (negative scheduled hours, in ticks)
MaxNegTicks == 3

\* cells of a breakdown handed to aggregate_project_breakdowns
MaxCells == 3
CellEmps == {1, 2}
CellProjects == {"Alpha", "Beta"}
CellTypes == {"No Type", "Design", None}
CellCounts == {1, 2}

\* breakdowns handed to format_project_breakdown_for_employee: every ordered
\* dict over these projects, types and counts
FmtProjects == {"Alpha", "Beta", "Gamma"}
FmtTypes == {"No Type", "Design"}
FmtCounts == {1, 2}

\* dates handed to get_sunday_friday_range: MaxTodays days from FirstToday on
\* (the first week after date.min is left out: the subtraction would leave
\* the range of dates)
FirstToday == 7
MaxTodays == 60
\* deadlines handed to the bucketing: list length, and days ahead of the clock
MaxDeadlines == 2
MaxDaysAhead == 15
MaxDaysPast == 2

\* the backend's answer: slots and timesheet lines returned in the window
MaxSlots == 2
MaxTimesheets == 1
\* weekly_hours = 40
weekly_hours == 40
\* if available_hours >= 15
FullyThreshold == 15

Hours(h) == h * TicksPerHour

(***************************************************************************)
(* Python dicts: insertion-ordered association lists                       *)
(***************************************************************************)
EmptyDict == << >>

DictKeys(d) == {d[i][1] : i \in DOMAIN d}

DictHas(d, k) == \E i \in DOMAIN d : d[i][1] = k

\* d.get(k, default)
DictGet(d, k, default) ==
    IF DictHas(d, k) THEN d[CHOOSE i \in DOMAIN d : d[i][1] = k][2] ELSE default

\* d[k] = v: an existing key keeps its place, a new key goes last
DictSet(d, k, v) ==
    IF DictHas(d, k)
    THEN [i \in DOMAIN d |-> IF d[i][1] = k THEN <<k, v>> ELSE d[i]]
    ELSE Append(d, <<k, v>>)

\* list(d.values())
DictValues(d) == [i \in DOMAIN d |-> d[i][2]]

\* sum(xs) over a list of numbers
RECURSIVE SumSeq(_)
SumSeq(xs) == IF xs = << >> THEN 0 ELSE Head(xs) + SumSeq(Tail(xs))

\* the association lists over the given keys and values with at most n entries
RECURSIVE DictsUpTo(_, _, _)
DictsUpTo(keys, values, n) ==
    IF n = 0 THEN {EmptyDict}
    ELSE LET smaller == DictsUpTo(keys, values, n - 1)
         IN smaller \cup
            UNION {{Append(d, <<k, v>>) : k \in keys \ DictKeys(d), v \in values} :
                      d \in {x \in smaller : Len(x) = n - 1}}

(***************************************************************************)
(* get_availability_guess_coded                                            *)
(***************************************************************************)
\* mutant: the clamp at zero is left out
ClampAvailable_noclamp(raw) == raw

ClampAvailable(raw) == IF raw < 0 THEN 0 ELSE raw

AvailableHours(t, s) == ClampAvailable(Hours(weekly_hours) - (t + s))

\* mutant: the "fully" threshold is exclusive
GuessLabel_exclusive(avail) ==
    IF avail > Hours(FullyThreshold) THEN "Fully Available"
    ELSE IF avail > 0 THEN "Partially Available"
    ELSE "Not Available"

GuessLabel(avail) ==
    IF avail >= Hours(FullyThreshold) THEN "Fully Available"
    ELSE IF avail > 0 THEN "Partially Available"
    ELSE "Not Available"

get_availability_guess_coded(t, s) ==
    <<AvailableHours(t, s), GuessLabel(AvailableHours(t, s))>>


(***************************************************************************)
(* aggregate_project_breakdowns                                            *)
(***************************************************************************)
\* aggregated[key][project_name] = aggregated[key].get(project_name, 0) + count
\* mutant: the count overwrites what other designers contributed
AddCount_overwrite(aggregated, key, project_name, count) ==
    DictSet(aggregated, key,
            DictSet(DictGet(aggregated, key, EmptyDict), project_name, count))

AddCount(aggregated, key, project_name, count) ==
    DictSet(aggregated, key,
            DictSet(DictGet(aggregated, key, EmptyDict), project_name,
                    DictGet(DictGet(aggregated, key, EmptyDict), project_name, 0) + count))

\* key = project_type if project_type is not None else "No Type"
\* mutant: a missing category is kept as the key
TypeKey_unfolded(project_type) == project_type

TypeKey(project_type) == IF project_type # None THEN project_type ELSE "No Type"

\* for project_type, count in type_dict.items()
RECURSIVE AggregateTypes(_, _, _)
AggregateTypes(aggregated, project_name, type_items) ==
    IF type_items = << >> THEN aggregated
    ELSE AggregateTypes(
            AddCount(aggregated, TypeKey(Head(type_items)[1]), project_name,
                     Head(type_items)[2]),
            project_name, Tail(type_items))

\* for project_name, type_dict in emp_breakdown.items()
RECURSIVE AggregateProjects(_, _)
AggregateProjects(aggregated, project_items) ==
    IF project_items = << >> THEN aggregated
    ELSE AggregateProjects(
            AggregateTypes(aggregated, Head(project_items)[1], Head(project_items)[2]),
            Tail(project_items))

\* for emp_id, emp_breakdown in project_breakdown_dict.items()
RECURSIVE AggregateEmployees(_, _)
AggregateEmployees(aggregated, emp_items) ==
    IF emp_items = << >> THEN aggregated
    ELSE AggregateEmployees(AggregateProjects(aggregated, Head(emp_items)[2]),
                            Tail(emp_items))

aggregate_project_breakdowns(breakdown) == AggregateEmployees(EmptyDict, breakdown)

\* one cell of a breakdown: designer, project, type and count; a cell whose
\* project is None only creates the designer's (empty) entry
BreakdownCells ==
    [emp : CellEmps, project : CellProjects \cup {None},
     type : CellTypes, count : CellCounts]

\* breakdown[emp][project][type] = count, creating the levels as needed
PutCell(breakdown, c) ==
    IF c.project = None
    THEN DictSet(breakdown, c.emp, DictGet(breakdown, c.emp, EmptyDict))
    ELSE DictSet(breakdown, c.emp,
            DictSet(DictGet(breakdown, c.emp, EmptyDict), c.project,
                DictSet(DictGet(DictGet(breakdown, c.emp, EmptyDict), c.project, EmptyDict),
                        c.type, c.count)))

RECURSIVE BreakdownsUpTo(_)
BreakdownsUpTo(n) ==
    IF n = 0 THEN {EmptyDict}
    ELSE LET smaller == BreakdownsUpTo(n - 1)
         IN smaller \cup {PutCell(b, c) : b \in smaller, c \in BreakdownCells}

AggregateInputs ==
    /\ project_breakdown_dict \in BreakdownsUpTo(MaxCells)
    /\ aggregated_breakdown = EmptyDict

Aggregate ==
    /\ "aggregate" \notin returned
    /\ returned' = returned \cup {"aggregate"}
    /\ aggregated_breakdown' = aggregate_project_breakdowns(project_breakdown_dict)
    /\ UNCHANGED <<project_breakdown_dict, classifyVars, fmtVars, windowVars, bucketVars,
                 configVars, backendVars, mainVars>>

(***************************************************************************)
(* format_project_breakdown_for_employee                                   *)
(***************************************************************************)
\* sep.join(xs)
RECURSIVE Join(_, _)
Join(sep, xs) ==
    IF xs = << >> THEN ""
    ELSE IF Len(xs) = 1 THEN xs[1]
    ELSE xs[1] \o sep \o Join(sep, Tail(xs))

\* sum(sum(types.values()) for types in breakdown_for_employee.values())
TotalCount(breakdown) ==
    SumSeq([i \in DOMAIN breakdown |-> SumSeq(DictValues(breakdown[i][2]))])

\* len(types) == 1 and list(types.values())[0] == 1 and "No Type" in types
\* mutant: the count of the single entry is not looked at
IsBareProject_anycount(types) == Len(types) = 1 /\ DictHas(types, "No Type")

IsBareProject(types) ==
    Len(types) = 1 /\ DictValues(types)[1] = 1 /\ DictHas(types, "No Type")

\* ", ".join(f"{count} {type_name}" for type_name, count in types.items())
Details(types) ==
    Join(", ", [i \in DOMAIN types |-> ToString(types[i][2]) \o " " \o types[i][1]])

ProjectString(project_name, types) ==
    IF IsBareProject(types) THEN project_name
    ELSE project_name \o " (" \o Details(types) \o ")"

ProjectStrings(breakdown) ==
    [i \in DOMAIN breakdown |-> ProjectString(breakdown[i][1], breakdown[i][2])]

\* mutant: a serial comma before the final "and"
FinalProjectsStr_serialcomma(strings) ==
    IF Len(strings) > 1
    THEN Join(", ", SubSeq(strings, 1, Len(strings) - 1)) \o ", and "
            \o strings[Len(strings)]
    ELSE IF strings # << >> THEN strings[1] ELSE ""

FinalProjectsStr(strings) ==
    IF Len(strings) > 1
    THEN Join(", ", SubSeq(strings, 1, Len(strings) - 1)) \o " and "
            \o strings[Len(strings)]
    ELSE IF strings # << >> THEN strings[1] ELSE ""

format_project_breakdown_for_employee(breakdown) ==
    <<TotalCount(breakdown), FinalProjectsStr(ProjectStrings(breakdown))>>

FmtTypeDicts == DictsUpTo(FmtTypes, FmtCounts, Cardinality(FmtTypes))

FormatInputs ==
    /\ breakdown_for_employee \in DictsUpTo(FmtProjects, FmtTypeDicts, Cardinality(FmtProjects))
    /\ total_count = 0
    /\ project_strings = << >>
    /\ final_projects_str = ""

Format ==
    /\ "format" \notin returned
    /\ returned' = returned \cup {"format"}
    /\ total_count' = format_project_breakdown_for_employee(breakdown_for_employee)[1]
    /\ project_strings' = ProjectStrings(breakdown_for_employee)
    /\ final_projects_str' = format_project_breakdown_for_employee(breakdown_for_employee)[2]
    /\ UNCHANGED <<breakdown_for_employee, classifyVars, aggVars, windowVars, bucketVars,
                 configVars, backendVars, mainVars>>

(***************************************************************************)
(* get_sunday_friday_range                                                 *)
(* A date is its proleptic ordinal (date.toordinal()); ordinal 1 is a      *)
(* Monday, and date.weekday() is 0 for Monday ... 6 for Sunday.            *)
(***************************************************************************)
Weekday(date) == (date + 6) % 7

\* diff = today.weekday() - 6; if diff < 0: diff += 7
\* mutant: the wrap-around of a negative difference is left out
WeekDiff_nowrap(date) == Weekday(date) - 6

WeekDiff(date) ==
    IF Weekday(date) - 6 < 0 THEN Weekday(date) - 6 + 7 ELSE Weekday(date) - 6

\* mutant: the window runs to the Saturday
get_sunday_friday_range_fullweek(date) ==
    <<date - WeekDiff(date), date - WeekDiff(date) + 6>>

get_sunday_friday_range(date) == <<date - WeekDiff(date), date - WeekDiff(date) + 5>>

WindowInputs ==
    /\ today \in FirstToday..(FirstToday + MaxTodays)
    /\ start_of_week = 0
    /\ end_of_week = 0

WindowIdle ==
    /\ today = FirstToday
    /\ start_of_week = 0
    /\ end_of_week = 0

Window ==
    /\ "window" \notin returned
    /\ returned' = returned \cup {"window"}
    /\ start_of_week' = get_sunday_friday_range(today)[1]
    /\ end_of_week' = get_sunday_friday_range(today)[2]
    /\ UNCHANGED <<today, classifyVars, aggVars, fmtVars, bucketVars,
                 configVars, backendVars, mainVars>>

(***************************************************************************)
(* Deadline bucketing (create_deadline_pie_chart, generate_better_word_doc)*)
(* A deadline string is the text of a datetime, or text that does not      *)
(* parse as one.                                                           *)
(***************************************************************************)
TicksPerDay == 24 * TicksPerHour

DatetimeStr(t) == [kind |-> "datetime", at |-> t]
MalformedStr == [kind |-> "malformed", at |-> 0]

\* pd.to_datetime(d_str) raises on text that is no datetime
Parses(d_str) == d_str.kind = "datetime"
ParsedDatetime(d_str) == d_str.at

\* (d - now).days: the floor of the difference in whole days
DeltaDays(d, clock) == (d - clock) \div TicksPerDay

\* the bucket a parsed deadline is counted in
\* mutant: a deadline exactly seven days ahead still counts as next week
BucketOf_inclusive(delta) ==
    IF delta < 0 THEN "past"
    ELSE IF delta <= 7 THEN "red"
    ELSE IF delta < 14 THEN "yellow"
    ELSE "green"

BucketOf(delta) ==
    IF delta < 0 THEN "past"
    ELSE IF delta < 7 THEN "red"
    ELSE IF delta < 14 THEN "yellow"
    ELSE "green"

\* for d_str in deadline_list: ... red += 1 / yellow += 1 / green += 1
RECURSIVE CountDeadlines(_, _, _)
CountDeadlines(counts, deadline_list, clock) ==
    IF deadline_list = << >> THEN counts
    ELSE LET d_str == Head(deadline_list)
             bucket == IF Parses(d_str)
                       THEN BucketOf(DeltaDays(ParsedDatetime(d_str), clock))
                       ELSE "skipped"
         IN CountDeadlines(
               IF bucket \in {"red", "yellow", "green"}
               THEN [counts EXCEPT ![bucket] = @ + 1] ELSE counts,
               Tail(deadline_list), clock)

DeadlineCounts(deadline_list, clock) ==
    CountDeadlines([red |-> 0, yellow |-> 0, green |-> 0], deadline_list, clock)

\* the deadline strings tried: around every day boundary from MaxDaysPast
\* days before the clock's origin to MaxDaysAhead days after it
DeadlineStrs ==
    {DatetimeStr(d * TicksPerDay + f) :
        d \in (0 - MaxDaysPast)..MaxDaysAhead, f \in {0, 1, TicksPerDay - 1}}
    \cup {MalformedStr}

RECURSIVE SeqsUpTo(_, _)
SeqsUpTo(S, n) ==
    IF n = 0 THEN {<< >>}
    ELSE LET smaller == SeqsUpTo(S, n - 1)
         IN smaller \cup {Append(q, x) : q \in {y \in smaller : Len(y) = n - 1}, x \in S}

BucketInputs ==
    /\ aggregated_deadlines \in SeqsUpTo(DeadlineStrs, MaxDeadlines)
    /\ now \in {0, 1}
    /\ red = 0
    /\ yellow = 0
    /\ green = 0

BucketIdle ==
    /\ aggregated_deadlines = << >>
    /\ now = 0
    /\ red = 0
    /\ yellow = 0
    /\ green = 0

Bucket ==
    /\ "bucket" \notin returned
    /\ returned' = returned \cup {"bucket"}
    /\ red' = DeadlineCounts(aggregated_deadlines, now).red
    /\ yellow' = DeadlineCounts(aggregated_deadlines, now).yellow
    /\ green' = DeadlineCounts(aggregated_deadlines, now).green
    /\ UNCHANGED <<aggregated_deadlines, now, classifyVars, aggVars, fmtVars, windowVars,
                 configVars, backendVars, mainVars>>

(***************************************************************************)
(* Backend records (Odoo, over XML-RPC)                                    *)
(* A many2one field is False when empty, a bare id, or an [id, label]      *)
(* pair.                                                                   *)
(***************************************************************************)
NoField == [tag |-> "none", id |-> 0, label |-> ""]
Scalar(i) == [tag |-> "id", id |-> i, label |-> ""]
Pair(i, l) == [tag |-> "pair", id |-> i, label |-> l]

\* the truth value of a field: False, None and 0 are falsy
Truthy(field) == field.tag = "pair" \/ (field.tag = "id" /\ field.id # 0)

\* field[0] if isinstance(field, list) else field
FieldId(field) == field.id

\* field[1] if isinstance(field, list) else str(field)
FieldName(field) == IF field.tag = "pair" THEN field.label ELSE ToString(field.id)

\* if emp_field: ... / if not res_field: continue
\* mutant: a record without a person reference is grouped like any other
HasPerson_unguarded(field) == TRUE

HasPerson(field) == Truthy(field)

\* search_read with ('resource_id', 'in', designer_ids): the records of the
\* queried persons; a record whose person reference is empty may come back
\* too (any field of a returned record may be absent)
OfPersons(records, person_field, ids) ==
    SelectSeq(records,
        LAMBDA r : ~Truthy(r[person_field]) \/ FieldId(r[person_field]) \in ids)

\* the elements of a list, as a set
Elements(xs) == {xs[i] : i \in DOMAIN xs}

(***************************************************************************)
(* get_all_timesheet_hours                                                 *)
(***************************************************************************)
\* for ts in timesheets: timesheet_dict[emp_id] += float(ts.get('unit_amount', 0))
RECURSIVE TimesheetLoop(_, _)
TimesheetLoop(acc, records) ==
    IF records = << >> THEN acc
    ELSE LET emp_field == Head(records).employee_id
             emp_id == FieldId(emp_field)
         IN TimesheetLoop(
               IF HasPerson(emp_field)
               THEN DictSet(acc, emp_id,
                            DictGet(acc, emp_id, 0) + Head(records).unit_amount)
               ELSE acc,
               Tail(records))

get_all_timesheet_hours(table, ids) ==
    IF ids = << >> THEN EmptyDict
    ELSE TimesheetLoop(EmptyDict, OfPersons(table, "employee_id", Elements(ids)))

(***************************************************************************)
(* get_all_scheduled_data                                                  *)
(***************************************************************************)
\* hours = (end - start).total_seconds() / 3600.0
SlotHours(slot) == slot.end_datetime - slot.start_datetime

\* for slot in slots: scheduled_data[emp_id]['hours'] += hours; projects.add(...)
RECURSIVE ScheduledLoop(_, _)
ScheduledLoop(scheduled_data, records) ==
    IF records = << >> THEN scheduled_data
    ELSE LET slot == Head(records)
             emp_id == FieldId(slot.resource_id)
             entry == DictGet(scheduled_data, emp_id, [hours |-> 0, projects |-> {}])
         IN ScheduledLoop(
               IF HasPerson(slot.resource_id)
               THEN DictSet(scheduled_data, emp_id,
                       [hours |-> entry.hours + SlotHours(slot),
                        projects |-> IF Truthy(slot.project_id)
                                     THEN entry.projects \cup {FieldName(slot.project_id)}
                                     ELSE entry.projects])
               ELSE scheduled_data,
               Tail(records))

get_all_scheduled_data(table, ids) ==
    IF ids = << >> THEN EmptyDict
    ELSE ScheduledLoop(EmptyDict, OfPersons(table, "resource_id", Elements(ids)))

(***************************************************************************)
(* Task lookups shared by the category, deadline and breakdown passes      *)
(***************************************************************************)
\* search_read with (task_field, '!=', False) on top of the person filter
WithTask(records, task_field, ids) ==
    SelectSeq(OfPersons(records, "resource_id", ids), LAMBDA r : Truthy(r[task_field]))

\* emp_task_pairs: one (emp_id, task_id) per slot with a person and a task
EmpTaskPairs(records, task_field) ==
    LET kept == SelectSeq(records,
                    LAMBDA r : HasPerson(r.resource_id) /\ Truthy(r[task_field]))
    IN [i \in DOMAIN kept |->
           <<FieldId(kept[i].resource_id), FieldId(kept[i][task_field])>>]

\* models.execute_kw(..., 'project.task', 'read', [task_ids], ...)
ReadTasks(table, task_ids) == SelectSeq(table, LAMBDA t : t.id \in task_ids)

\* for emp_id, task_id in emp_task_pairs: value = task_map.get(task_id);
\* if value: result[emp_id].add(value)   (a due date string is never empty)
RECURSIVE CollectPerPerson(_, _, _)
CollectPerPerson(result, pairs, task_map) ==
    IF pairs = << >> THEN result
    ELSE LET emp_id == Head(pairs)[1]
             task_id == Head(pairs)[2]
         IN CollectPerPerson(
               IF DictHas(task_map, task_id)
               THEN DictSet(result, emp_id,
                       DictGet(result, emp_id, {}) \cup {DictGet(task_map, task_id, None)})
               ELSE result,
               Tail(pairs), task_map)

(***************************************************************************)
(* get_subtask_service_categories                                          *)
(***************************************************************************)
\* task_cat_map[task['id']] = cat_name, for the tasks that carry a category
RECURSIVE TaskCatMap(_, _)
TaskCatMap(task_cat_map, tasks_data) ==
    IF tasks_data = << >> THEN task_cat_map
    ELSE LET cat_field == Head(tasks_data).x_studio_service_category_1
         IN TaskCatMap(
               IF Truthy(cat_field)
               THEN DictSet(task_cat_map, Head(tasks_data).id, FieldName(cat_field))
               ELSE task_cat_map,
               Tail(tasks_data))

\* for emp_id, task_id in emp_task_pairs: cat_name = task_cat_map.get(task_id);
\* if cat_name: categories_dict[emp_id].add(cat_name)
\* (an empty name is falsy, like the None of a task without entry)
RECURSIVE CollectCategories(_, _, _)
CollectCategories(categories_dict, pairs, task_cat_map) ==
    IF pairs = << >> THEN categories_dict
    ELSE LET emp_id == Head(pairs)[1]
             cat_name == DictGet(task_cat_map, Head(pairs)[2], None)
         IN CollectCategories(
               IF cat_name # None /\ cat_name # ""
               THEN DictSet(categories_dict, emp_id,
                       DictGet(categories_dict, emp_id, {}) \cup {cat_name})
               ELSE categories_dict,
               Tail(pairs), task_cat_map)

get_subtask_service_categories(slot_table, task_table, ids) ==
    IF ids = << >> THEN EmptyDict
    ELSE LET pairs == EmpTaskPairs(WithTask(slot_table, "x_studio_sub_task_1", Elements(ids)),
                                   "x_studio_sub_task_1")
             unique_task_ids == {pairs[i][2] : i \in DOMAIN pairs}
         IN IF unique_task_ids = {} THEN EmptyDict
            ELSE CollectCategories(EmptyDict, pairs,
                    TaskCatMap(EmptyDict, ReadTasks(task_table, unique_task_ids)))

(***************************************************************************)
(* get_parent_task_due_dates                                               *)
(* A raw due date is empty, the text of a UTC datetime, or text that does  *)
(* not parse; the stored string is the datetime at UTC+3.                  *)
(***************************************************************************)
NoDueDate == [kind |-> "none", at |-> 0]
DueDate(t) == [kind |-> "datetime", at |-> t]
MalformedDueDate == [kind |-> "malformed", at |-> 0]

\* try: strftime of the due date at UTC+3; except: str(raw_date)
\* mutant: a due date that does not parse is replaced by the clock's origin
DueDateStr_epoch(raw_date) ==
    IF raw_date.kind = "datetime" THEN DatetimeStr(raw_date.at + 3 * TicksPerHour)
    ELSE DatetimeStr(0)

DueDateStr(raw_date) ==
    IF raw_date.kind = "datetime" THEN DatetimeStr(raw_date.at + 3 * TicksPerHour)
    ELSE MalformedStr

\* task_due_map[task['id']] = due_date_str, for the tasks that carry a due date
RECURSIVE TaskDueMap(_, _)
TaskDueMap(task_due_map, tasks_data) ==
    IF tasks_data = << >> THEN task_due_map
    ELSE LET raw_date == Head(tasks_data).x_studio_internal_due_date_1
         IN TaskDueMap(
               IF raw_date.kind # "none"
               THEN DictSet(task_due_map, Head(tasks_data).id, DueDateStr(raw_date))
               ELSE task_due_map,
               Tail(tasks_data))

\* mutant: the slots are selected and paired by their subtask reference
get_parent_task_due_dates_subtask(slot_table, task_table, ids) ==
    IF ids = << >> THEN EmptyDict
    ELSE LET pairs == EmpTaskPairs(WithTask(slot_table, "x_studio_sub_task_1", Elements(ids)),
                                   "x_studio_sub_task_1")
             unique_task_ids == {pairs[i][2] : i \in DOMAIN pairs}
         IN IF unique_task_ids = {} THEN EmptyDict
            ELSE CollectPerPerson(EmptyDict, pairs,
                    TaskDueMap(EmptyDict, ReadTasks(task_table, unique_task_ids)))

get_parent_task_due_dates(slot_table, task_table, ids) ==
    IF ids = << >> THEN EmptyDict
    ELSE LET pairs == EmpTaskPairs(WithTask(slot_table, "x_studio_parent_task", Elements(ids)),
                                   "x_studio_parent_task")
             unique_task_ids == {pairs[i][2] : i \in DOMAIN pairs}
         IN IF unique_task_ids = {} THEN EmptyDict
            ELSE CollectPerPerson(EmptyDict, pairs,
                    TaskDueMap(EmptyDict, ReadTasks(task_table, unique_task_ids)))

(***************************************************************************)
(* get_project_breakdown                                                   *)
(***************************************************************************)
\* task_cat_map[task['id']] = cat_name or None, for every task read
RECURSIVE TaskTypeMap(_, _)
TaskTypeMap(task_cat_map, tasks_data) ==
    IF tasks_data = << >> THEN task_cat_map
    ELSE LET cat_field == Head(tasks_data).x_studio_service_category_1
         IN TaskTypeMap(
               DictSet(task_cat_map, Head(tasks_data).id,
                       IF Truthy(cat_field) THEN FieldName(cat_field) ELSE None),
               Tail(tasks_data))

\* breakdown[emp_id][project_name][type_key] += 1
\* mutant: the cell is set to 1 instead of being incremented
CountSlot_set(breakdown, emp_id, project_name, type_key) ==
    LET emp_breakdown == DictGet(breakdown, emp_id, EmptyDict)
        types == DictGet(emp_breakdown, project_name, EmptyDict)
    IN DictSet(breakdown, emp_id,
          DictSet(emp_breakdown, project_name, DictSet(types, type_key, 1)))

\* mutant: the category found for the subtask is not used as the key
CountSlot_untyped(breakdown, emp_id, project_name, type_key) ==
    LET emp_breakdown == DictGet(breakdown, emp_id, EmptyDict)
        types == DictGet(emp_breakdown, project_name, EmptyDict)
    IN DictSet(breakdown, emp_id,
          DictSet(emp_breakdown, project_name,
             DictSet(types, "No Type", DictGet(types, "No Type", 0) + 1)))

CountSlot(breakdown, emp_id, project_name, type_key) ==
    LET emp_breakdown == DictGet(breakdown, emp_id, EmptyDict)
        types == DictGet(emp_breakdown, project_name, EmptyDict)
    IN DictSet(breakdown, emp_id,
          DictSet(emp_breakdown, project_name,
             DictSet(types, type_key, DictGet(types, type_key, 0) + 1)))

RECURSIVE BreakdownLoop(_, _, _)
BreakdownLoop(breakdown, records, task_cat_map) ==
    IF records = << >> THEN breakdown
    ELSE LET slot == Head(records)
             emp_id == FieldId(slot.resource_id)
             project_type == IF Truthy(slot.x_studio_sub_task_1)
                             THEN DictGet(task_cat_map, FieldId(slot.x_studio_sub_task_1), None)
                             ELSE None
         IN BreakdownLoop(
               IF ~HasPerson(slot.resource_id) THEN breakdown
               ELSE IF ~Truthy(slot.project_id)
               THEN DictSet(breakdown, emp_id, DictGet(breakdown, emp_id, EmptyDict))
               ELSE CountSlot(breakdown, emp_id, FieldName(slot.project_id),
                              TypeKey(project_type)),
               Tail(records), task_cat_map)

get_project_breakdown(slot_table, task_table, ids) ==
    LET records == OfPersons(slot_table, "resource_id", Elements(ids))
        task_ids == {FieldId(records[i].x_studio_sub_task_1) :
                        i \in {j \in DOMAIN records : Truthy(records[j].x_studio_sub_task_1)}}
    IN BreakdownLoop(EmptyDict, records,
                     TaskTypeMap(EmptyDict, ReadTasks(task_table, task_ids)))

(***************************************************************************)
(* get_deadlines_for_week: the listing of deadlines due within seven days  *)
(***************************************************************************)
\* str(False): what the listing keeps as deadline of a task with no due date
FalseStr == [kind |-> "False", at |-> 0]

\* try: strftime of the due date at UTC+3; except: str(raw_date)
\* (pd.to_datetime raises on False as it does on text that is no datetime)
ListingDeadlineStr(raw_date) ==
    IF raw_date.kind = "datetime" THEN DatetimeStr(raw_date.at + 3 * TicksPerHour)
    ELSE IF raw_date.kind = "none" THEN FalseStr
    ELSE MalformedStr

\* task_info[task['id']] = {'deadline': deadline_str, 'project_type': project_type}
RECURSIVE TaskInfo(_, _)
TaskInfo(task_info, tasks_data) ==
    IF tasks_data = << >> THEN task_info
    ELSE LET task == Head(tasks_data)
             cat_field == task.x_studio_service_category_1
         IN TaskInfo(
               DictSet(task_info, task.id,
                  [deadline |-> ListingDeadlineStr(task.x_studio_internal_due_date_1),
                   project_type |-> IF Truthy(cat_field) THEN FieldName(cat_field)
                                    ELSE None]),
               Tail(tasks_data))

\* emp_names = {emp['id']: emp['name'] for emp in employees}
RECURSIVE EmpNames(_, _)
EmpNames(emp_names, emps) ==
    IF emps = << >> THEN emp_names
    ELSE EmpNames(DictSet(emp_names, Head(emps).id, Head(emps).name), Tail(emps))

\* if 0 <= delta_days < 7
\* mutant: a deadline exactly seven days ahead is still listed
InNextWeek_inclusive(delta_days) == 0 <= delta_days /\ delta_days <= 7

InNextWeek(delta_days) == 0 <= delta_days /\ delta_days < 7

\* the record appended for a slot
DeadlineRecord(slot, info, emp_names) ==
    [designer |-> IF Truthy(slot.resource_id)
                  THEN DictGet(emp_names, FieldId(slot.resource_id), "Unknown")
                  ELSE "Unknown",
     project |-> IF Truthy(slot.project_id) THEN FieldName(slot.project_id) ELSE None,
     project_type |-> info.project_type,
     deadline |-> info.deadline]

\* for slot in slots: ... deadlines_for_week.append(record)
RECURSIVE ListingLoop(_, _, _, _, _)
ListingLoop(deadlines_for_week, records, task_info, emp_names, clock) ==
    IF records = << >> THEN deadlines_for_week
    ELSE LET slot == Head(records)
             parent_field == slot.x_studio_parent_task
             resolved == Truthy(parent_field) /\ DictHas(task_info, FieldId(parent_field))
             info == DictGet(task_info, FieldId(parent_field),
                             [deadline |-> FalseStr, project_type |-> None])
             listed == /\ resolved
                       /\ Parses(info.deadline)
                       /\ InNextWeek(DeltaDays(ParsedDatetime(info.deadline), clock))
         IN ListingLoop(
               IF listed
               THEN Append(deadlines_for_week, DeadlineRecord(slot, info, emp_names))
               ELSE deadlines_for_week,
               Tail(records), task_info, emp_names, clock)

get_deadlines_for_week(slot_table, task_table, employee_table, ids, clock) ==
    LET records == WithTask(slot_table, "x_studio_parent_task", Elements(ids))
        unique_task_ids == {FieldId(records[i].x_studio_parent_task) : i \in DOMAIN records}
    IN IF unique_task_ids = {} THEN << >>
       ELSE ListingLoop(<< >>, records,
               TaskInfo(EmptyDict, ReadTasks(task_table, unique_task_ids)),
               EmpNames(EmptyDict,
                        SelectSeq(employee_table, LAMBDA emp : emp.id \in Elements(ids))),
               clock)

(***************************************************************************)
(* get_odoo_credentials, authenticate_odoo                                 *)
(* A credential is "" when it is not set.  The secret store says whether   *)
(* it has an "odoo" section and which values that section holds.           *)
(***************************************************************************)
CredentialNames == {"ODOO_URL", "ODOO_DB", "ODOO_USERNAME", "ODOO_PASSWORD"}
NoCredentials == [c \in CredentialNames |-> ""]
NoSecrets == [odoo |-> FALSE, values |-> NoCredentials]
Secrets(values) == [odoo |-> TRUE, values |-> values]

\* if "odoo" in st.secrets: the four values of that section (default "");
\* else: the four environment variables (default "")
get_odoo_credentials(store, env) ==
    IF store.odoo THEN store.values ELSE env

\* not ODOO_URL or not ODOO_DB or not ODOO_USERNAME or not ODOO_PASSWORD
CredentialsMissing_urlonly(creds) == creds["ODOO_URL"] = ""

CredentialsMissing(creds) == \E c \in CredentialNames : creds[c] = ""

\* what common.authenticate(...) does: returns a user id, returns False,
\* or raises (the server cannot be reached, the database does not exist)
AuthUid(uid) == [kind |-> "uid", uid |-> uid]
AuthFalse == [kind |-> "false", uid |-> 0]
AuthRaises == [kind |-> "raises", uid |-> 0]

\* if not uid
\* mutant: whatever the server returns is taken for a session id
ValidUid_unchecked(reply) == reply.kind # "raises"

ValidUid(reply) == reply.kind = "uid" /\ reply.uid # 0

\* authenticate_odoo: the calls it makes, whether it returns (st.stop() ends
\* the script run otherwise) and the error it shows
authenticate_odoo(store, env, reply) ==
    LET creds == get_odoo_credentials(store, env)
    IN IF CredentialsMissing(creds)
       THEN [calls |-> << >>, returns |-> FALSE, uid |-> 0,
             error |-> "Odoo credentials not properly configured"]
       ELSE IF reply.kind = "raises"
       THEN [calls |-> <<"common.authenticate">>, returns |-> FALSE, uid |-> 0,
             error |-> "Error connecting to Odoo"]
       ELSE IF ~ValidUid(reply)
       THEN [calls |-> <<"common.authenticate">>, returns |-> FALSE, uid |-> 0,
             error |-> "Failed to authenticate with Odoo"]
       ELSE [calls |-> <<"common.authenticate">>, returns |-> TRUE, uid |-> reply.uid,
             error |-> ""]

\* main, before the button is shown: stop when there is no "odoo" section
\* and not all four environment variables are set
ButtonShown(store, env) ==
    store.odoo \/ \A c \in CredentialNames : env[c] # ""

(***************************************************************************)
(* get_designer_ids_from_planning, read_employee_info                      *)
(***************************************************************************)
\* 'designer' in (emp.get('job_title') or '').lower()
IsDesignerTitle(job_title) == job_title \in {"Designer", "Senior designer"}

get_designer_ids_from_planning(slot_table, employee_table) ==
    LET resource_ids == {FieldId(slot_table[i].resource_id) :
                            i \in {j \in DOMAIN slot_table :
                                       Truthy(slot_table[j].resource_id)}}
        found == SelectSeq(employee_table, LAMBDA emp : emp.id \in resource_ids)
        designers == SelectSeq(found, LAMBDA emp : IsDesignerTitle(emp.job_title))
    IN IF resource_ids = {} THEN << >>
       ELSE [i \in DOMAIN designers |-> designers[i].id]

read_employee_info(employee_table, employee_ids) ==
    IF employee_ids = << >> THEN << >>
    ELSE SelectSeq(employee_table, LAMBDA emp : emp.id \in Elements(employee_ids))

\* employee_dict = {emp['id']: emp for emp in employees}
RECURSIVE EmployeeDict(_, _)
EmployeeDict(employee_dict, emps) ==
    IF emps = << >> THEN employee_dict
    ELSE EmployeeDict(DictSet(employee_dict, Head(emps).id, Head(emps)), Tail(emps))

\* list(employee_dict.keys())
KeyList(d) == [i \in DOMAIN d |-> d[i][1]]

(***************************************************************************)
(* main: the flat deadline collection and the designer records             *)
(***************************************************************************)
\* list(a_set): the elements in any order
RECURSIVE Orderings(_)
Orderings(S) ==
    IF S = {} THEN {<< >>}
    ELSE UNION {{<<x>> \o rest : rest \in Orderings(S \ {x})} : x \in S}

\* mutant: a deadline already collected for another designer is not repeated
FlatDeadlines_dedup(ids, deadlines_dict) ==
    Orderings(UNION {DictGet(deadlines_dict, ids[i], {}) : i \in DOMAIN ids})

\* for emp_id in designer_ids:
\*     aggregated_deadlines.extend(list(parent_dd_dict.get(emp_id, set())))
RECURSIVE FlatDeadlines(_, _)
FlatDeadlines(ids, deadlines_dict) ==
    IF ids = << >> THEN {<< >>}
    ELSE {first \o rest :
             first \in Orderings(DictGet(deadlines_dict, Head(ids), {})),
             rest \in FlatDeadlines(Tail(ids), deadlines_dict)}

\* one record of designer_info_list
DesignerRecord(emp, t_dict, s_dict, c_dict, d_dict) ==
    LET sched == DictGet(s_dict, emp.id, [hours |-> 0, projects |-> {}])
        classified == get_availability_guess_coded(DictGet(t_dict, emp.id, 0), sched.hours)
    IN [name |-> emp.name,
        capacity |-> classified[1],
        guess |-> classified[2],
        projects |-> sched.projects,
        subtask_categories |-> DictGet(c_dict, emp.id, {}),
        parent_deadlines |-> DictGet(d_dict, emp.id, {})]

\* x['name'].lower(), and the order of the lowered names as strings
LowerName(name) ==
    CASE name = "Bob" -> "bob"
      [] name = "Cy" -> "cy"
      [] OTHER -> name

StringRank(str) ==
    CHOOSE i \in 1..3 : <<"ann", "bob", "cy">>[i] = str

\* mutant: the names are compared as they are, capitals before small letters
SortKey_casesensitive(info) ==
    CHOOSE i \in 1..3 : <<"Bob", "Cy", "ann">>[i] = info.name

SortKey(info) == StringRank(LowerName(info.name))

\* list.sort(key=...): stable, so an element goes after those with an equal key
RECURSIVE SortByName(_)
SortByName(infos) ==
    IF infos = << >> THEN << >>
    ELSE LET sorted == SortByName(SubSeq(infos, 1, Len(infos) - 1))
             last == infos[Len(infos)]
             before == SelectSeq(sorted, LAMBDA x : SortKey(x) <= SortKey(last))
             after == SelectSeq(sorted, LAMBDA x : SortKey(x) > SortKey(last))
         IN before \o <<last>> \o after

\* designer_info_list = []
\* mutant: the list of the previous run is kept and appended to
NewDesignerInfoList_kept == designer_info_list

NewDesignerInfoList == << >>

DesignerInfoList(employee_dict, ids, t_dict, s_dict, c_dict, d_dict) ==
    SortByName(
        NewDesignerInfoList \o
        [i \in DOMAIN ids |->
            DesignerRecord(DictGet(employee_dict, ids[i], None),
                           t_dict, s_dict, c_dict, d_dict)])

(***************************************************************************)
(* main: one run of the analysis ("Run Analysis" pressed, session          *)
(* authenticated); the button can be pressed again in the same session     *)
(***************************************************************************)
\* the backend's tables
EmployeeTable ==
    <<[id |-> 1, name |-> "Bob", job_title |-> "Designer"],
      [id |-> 2, name |-> "ann", job_title |-> "Senior designer"],
      [id |-> 3, name |-> "Cy", job_title |-> "Manager"]>>

Task(id, category, due) ==
    [id |-> id, x_studio_service_category_1 |-> category,
     x_studio_internal_due_date_1 |-> due]

TaskTables ==
    {<<Task(1, Pair(7, "Design"), DueDate(TicksPerDay)),
       Task(2, NoField, MalformedDueDate)>>,
     <<Task(1, Scalar(8), DueDate(0 - TicksPerDay)),
       Task(2, Pair(7, "Design"), NoDueDate)>>}

Slot(resource, hours, project, subtask, parent) ==
    [resource_id |-> resource, start_datetime |-> 0, end_datetime |-> Hours(hours),
     project_id |-> project, x_studio_sub_task_1 |-> subtask,
     x_studio_parent_task |-> parent]

SlotChoices ==
    UNION {{Slot(r, 8, Pair(10, "Alpha"), NoField, NoField),
            Slot(r, 30, Pair(10, "Alpha"), Pair(1, "T1"), Pair(1, "T1")),
            Slot(r, 8, Scalar(11), Scalar(2), Scalar(2)),
            Slot(r, 30, NoField, Pair(1, "T1"), NoField),
            Slot(r, 8, NoField, NoField, Pair(1, "T1"))} :
              r \in {NoField, Pair(1, "Bob"), Scalar(2)}}
    \cup {Slot(Scalar(3), 30, Pair(10, "Alpha"), Pair(1, "T1"), Pair(1, "T1"))}

TimesheetChoices ==
    {[employee_id |-> NoField, unit_amount |-> Hours(10)],
     [employee_id |-> Pair(1, "Bob"), unit_amount |-> Hours(10)],
     [employee_id |-> Scalar(2), unit_amount |-> Hours(36)]}

MainOutputsIdle ==
    /\ designer_ids = << >>
    /\ timesheet_dict = EmptyDict
    /\ scheduled_dict = EmptyDict
    /\ subtask_cat_dict = EmptyDict
    /\ parent_dd_dict = EmptyDict
    /\ designer_info_list = << >>
    /\ outcome = "idle"
    /\ runs = 0
    /\ prev_designer_info_list = << >>
    /\ prev_aggregated_breakdown = EmptyDict
    /\ deadlines_details = << >>
    /\ calls = << >>
    /\ error = ""
    /\ document = "none"

\* a configured secret store and a backend that accepts the login
ConfiguredSession ==
    /\ secrets = Secrets([c \in CredentialNames |-> "set"])
    /\ environ = NoCredentials
    /\ auth_reply = AuthUid(7)

MainInputs ==
    /\ ConfiguredSession
    /\ employees = EmployeeTable
    /\ tasks \in TaskTables
    /\ slots \in SeqsUpTo(SlotChoices, MaxSlots)
    /\ timesheets \in SeqsUpTo(TimesheetChoices, MaxTimesheets)
    /\ MainOutputsIdle

MainIdle ==
    /\ ConfiguredSession
    /\ employees = << >>
    /\ tasks = << >>
    /\ slots = << >>
    /\ timesheets = << >>
    /\ MainOutputsIdle

\* the functions of a run that query the backend, in the order main calls them
DataQueries ==
    <<"get_designer_ids_from_planning", "read_employee_info", "get_all_timesheet_hours",
      "get_all_scheduled_data", "get_subtask_service_categories",
      "get_parent_task_due_dates", "get_project_breakdown", "get_deadlines_for_week">>

RunAnalysis ==
    /\ runs < 2
    /\ ButtonShown(secrets, environ)
    /\ runs' = runs + 1
    /\ prev_designer_info_list' = designer_info_list
    /\ prev_aggregated_breakdown' = aggregated_breakdown
    /\ LET auth == authenticate_odoo(secrets, environ, auth_reply)
           relevant_designer_ids == get_designer_ids_from_planning(slots, employees)
           employee_dict ==
               EmployeeDict(EmptyDict, read_employee_info(employees, relevant_designer_ids))
           ids == KeyList(employee_dict)
           t_dict == get_all_timesheet_hours(timesheets, ids)
           s_dict == get_all_scheduled_data(slots, ids)
           c_dict == get_subtask_service_categories(slots, tasks, ids)
           d_dict == get_parent_task_due_dates(slots, tasks, ids)
           breakdown == get_project_breakdown(slots, tasks, ids)
       IN IF ~auth.returns
          THEN \* st.stop() inside authenticate_odoo ends the script run
               /\ outcome' = "stopped"
               /\ error' = auth.error
               /\ calls' = auth.calls
               /\ designer_ids' = << >>
               /\ timesheet_dict' = EmptyDict
               /\ scheduled_dict' = EmptyDict
               /\ subtask_cat_dict' = EmptyDict
               /\ parent_dd_dict' = EmptyDict
               /\ project_breakdown_dict' = EmptyDict
               /\ aggregated_breakdown' = EmptyDict
               /\ aggregated_deadlines' = << >>
               /\ deadlines_details' = << >>
               /\ designer_info_list' = << >>
               /\ document' = "none"
               /\ UNCHANGED <<start_of_week, end_of_week, red, yellow, green>>
          ELSE IF relevant_designer_ids = << >>
          THEN \* st.warning("No designers found ..."); return
               /\ outcome' = "no_designers"
               /\ error' = ""
               /\ calls' = auth.calls \o <<DataQueries[1]>>
               /\ start_of_week' = get_sunday_friday_range(today)[1]
               /\ end_of_week' = get_sunday_friday_range(today)[2]
               /\ designer_ids' = << >>
               /\ timesheet_dict' = EmptyDict
               /\ scheduled_dict' = EmptyDict
               /\ subtask_cat_dict' = EmptyDict
               /\ parent_dd_dict' = EmptyDict
               /\ project_breakdown_dict' = EmptyDict
               /\ aggregated_breakdown' = EmptyDict
               /\ aggregated_deadlines' = << >>
               /\ deadlines_details' = << >>
               /\ designer_info_list' = << >>
               /\ document' = "none"
               /\ UNCHANGED <<red, yellow, green>>
          ELSE /\ outcome' = "done"
               /\ error' = ""
               /\ calls' = auth.calls \o DataQueries
               /\ start_of_week' = get_sunday_friday_range(today)[1]
               /\ end_of_week' = get_sunday_friday_range(today)[2]
               /\ designer_ids' = ids
               /\ timesheet_dict' = t_dict
               /\ scheduled_dict' = s_dict
               /\ subtask_cat_dict' = c_dict
               /\ parent_dd_dict' = d_dict
               /\ project_breakdown_dict' = breakdown
               /\ aggregated_breakdown' = aggregate_project_breakdowns(breakdown)
               /\ aggregated_deadlines' \in FlatDeadlines(ids, d_dict)
               /\ deadlines_details' = get_deadlines_for_week(slots, tasks, employees, ids, now)
               /\ designer_info_list'
                    = DesignerInfoList(employee_dict, ids, t_dict, s_dict, c_dict, d_dict)
               /\ document' = "requested"
               /\ red' = DeadlineCounts(aggregated_deadlines', now).red
               /\ yellow' = DeadlineCounts(aggregated_deadlines', now).yellow
               /\ green' = DeadlineCounts(aggregated_deadlines', now).green
    /\ UNCHANGED <<today, now, classifyVars, fmtVars, returned, configVars, backendVars>>

(***************************************************************************)
(* The passes called on their own: arguments drawn from the records a      *)
(* backend can return for two designers                                    *)
(***************************************************************************)
\* main's outputs other than designer_ids, before any run
RunOutputsIdle ==
    /\ timesheet_dict = EmptyDict
    /\ scheduled_dict = EmptyDict
    /\ subtask_cat_dict = EmptyDict
    /\ parent_dd_dict = EmptyDict
    /\ designer_info_list = << >>
    /\ outcome = "idle"
    /\ runs = 0
    /\ prev_designer_info_list = << >>
    /\ prev_aggregated_breakdown = EmptyDict
    /\ deadlines_details = << >>
    /\ calls = << >>
    /\ error = ""
    /\ document = "none"

\* slots for get_project_breakdown: with and without person, project and
\* subtask; subtask 9 is a task the lookup does not return
BreakdownSlots ==
    {Slot(r, 8, p, t, NoField) :
        r \in {NoField, Pair(1, "Bob"), Scalar(2)},
        p \in {NoField, Pair(10, "Alpha"), Scalar(11)},
        t \in {NoField, Pair(1, "T1"), Scalar(2), Scalar(9)}}

BreakdownTaskTables ==
    {<<Task(1, Pair(7, "Design"), NoDueDate), Task(2, NoField, NoDueDate)>>,
     <<Task(1, Scalar(8), NoDueDate), Task(2, Pair(7, "Design"), NoDueDate)>>}

BreakdownInputs ==
    /\ ConfiguredSession
    /\ employees = EmployeeTable
    /\ timesheets = << >>
    /\ tasks \in BreakdownTaskTables
    /\ slots \in SeqsUpTo(BreakdownSlots, MaxSlots)
    /\ designer_ids = <<1, 2>>
    /\ RunOutputsIdle

Breakdown ==
    /\ "breakdown" \notin returned
    /\ returned' = returned \cup {"breakdown"}
    /\ project_breakdown_dict' = get_project_breakdown(slots, tasks, designer_ids)
    /\ UNCHANGED <<aggregated_breakdown, classifyVars, fmtVars, windowVars, bucketVars,
                 configVars, backendVars, designer_ids, timesheet_dict, scheduled_dict,
                 subtask_cat_dict, parent_dd_dict, designer_info_list, outcome, runs,
                 prev_designer_info_list, prev_aggregated_breakdown, deadlines_details,
                 calls, error, document>>

\* slots for the category pass and the breakdown pass of one run: with and
\* without person, project and subtask
CategorySlots ==
    {Slot(r, 8, p, t, NoField) :
        r \in {NoField, Pair(1, "Bob"), Scalar(2)},
        p \in {NoField, Pair(10, "Alpha")},
        t \in {NoField, Pair(1, "T1"), Scalar(2), Scalar(3)}}

\* categories as [id, name] pairs and bare ids, a task without category, and
\* a category record whose name is empty
CategoryTaskTables ==
    {<<Task(1, Pair(7, "Design"), NoDueDate), Task(2, Pair(8, ""), NoDueDate),
       Task(3, NoField, NoDueDate)>>,
     <<Task(1, Scalar(8), NoDueDate), Task(2, Pair(7, "Design"), NoDueDate),
       Task(3, Pair(9, "Motion"), NoDueDate)>>}

CategoryInputs ==
    /\ ConfiguredSession
    /\ employees = EmployeeTable
    /\ timesheets = << >>
    /\ tasks \in CategoryTaskTables
    /\ slots \in SeqsUpTo(CategorySlots, MaxSlots)
    /\ designer_ids = <<1, 2>>
    /\ RunOutputsIdle

\* the three passes a run makes over the slots' task references, in main's
\* order, on the same records
CategoryPasses ==
    /\ "category_passes" \notin returned
    /\ returned' = returned \cup {"category_passes"}
    /\ subtask_cat_dict' = get_subtask_service_categories(slots, tasks, designer_ids)
    /\ parent_dd_dict' = get_parent_task_due_dates(slots, tasks, designer_ids)
    /\ project_breakdown_dict' = get_project_breakdown(slots, tasks, designer_ids)
    /\ UNCHANGED <<aggregated_breakdown, classifyVars, fmtVars, windowVars, bucketVars,
                 configVars, backendVars, designer_ids, timesheet_dict, scheduled_dict,
                 designer_info_list, outcome, runs,
                 prev_designer_info_list, prev_aggregated_breakdown, deadlines_details,
                 calls, error, document>>

\* slots for get_all_scheduled_data: eight hours, no time at all, and a slot
\* whose end lies two hours before its start
ScheduledSlots ==
    {Slot(r, h, p, NoField, NoField) :
        r \in {NoField, Pair(1, "Bob"), Scalar(2)},
        h \in {8, 0, 0 - 2},
        p \in {NoField, Pair(10, "Alpha")}}

ScheduledInputs ==
    /\ ConfiguredSession
    /\ employees = EmployeeTable
    /\ timesheets = << >>
    /\ tasks = << >>
    /\ slots \in SeqsUpTo(ScheduledSlots, MaxSlots)
    /\ designer_ids = <<1, 2>>
    /\ RunOutputsIdle

Scheduled ==
    /\ "scheduled" \notin returned
    /\ returned' = returned \cup {"scheduled"}
    /\ scheduled_dict' = get_all_scheduled_data(slots, designer_ids)
    /\ UNCHANGED <<aggVars, classifyVars, fmtVars, windowVars, bucketVars,
                 configVars, backendVars, designer_ids, timesheet_dict,
                 subtask_cat_dict, parent_dd_dict, designer_info_list, outcome, runs,
                 prev_designer_info_list, prev_aggregated_breakdown, deadlines_details,
                 calls, error, document>>

\* slots for get_deadlines_for_week: parent task 9 is a task the lookup does
\* not return
ListingSlots ==
    {Slot(r, 8, p, NoField, t) :
        r \in {NoField, Pair(1, "Bob")},
        p \in {NoField, Pair(10, "Alpha")},
        t \in {Pair(1, "T1"), Scalar(2), Scalar(9)}}

\* due dates of task 1: such that the deadline at UTC+3 falls on, just after
\* and just before the day boundaries -1, 0, 6 and 7 days from the clock's
\* origin; or malformed; or none.  Task 2 is due in eight days.
ListingDueDates ==
    {DueDate(d * TicksPerDay + f - 3 * TicksPerHour) :
        d \in {0 - 1, 0, 6, 7}, f \in {0, 1, TicksPerDay - 1}}
    \cup {MalformedDueDate, NoDueDate}

ListingTaskTables ==
    {<<Task(1, c, due), Task(2, Scalar(8), DueDate(8 * TicksPerDay))>> :
        c \in {NoField, Pair(7, "Design")}, due \in ListingDueDates}

ListingInputs ==
    /\ ConfiguredSession
    /\ employees = EmployeeTable
    /\ timesheets = << >>
    /\ tasks \in ListingTaskTables
    /\ slots \in SeqsUpTo(ListingSlots, MaxSlots)
    /\ designer_ids = <<1, 2>>
    /\ RunOutputsIdle

\* BucketIdle with the clock at either side of a tick
ListingClock ==
    /\ aggregated_deadlines = << >>
    /\ now \in {0, 1}
    /\ red = 0
    /\ yellow = 0
    /\ green = 0

Listing ==
    /\ "listing" \notin returned
    /\ returned' = returned \cup {"listing"}
    /\ deadlines_details' = get_deadlines_for_week(slots, tasks, employees, designer_ids, now)
    /\ UNCHANGED <<aggVars, classifyVars, fmtVars, windowVars, bucketVars,
                 configVars, backendVars, designer_ids, timesheet_dict, scheduled_dict,
                 subtask_cat_dict, parent_dd_dict, designer_info_list, outcome, runs,
                 prev_designer_info_list, prev_aggregated_breakdown,
                 calls, error, document>>

\* sessions for the start of a run: every way the four credentials can be
\* set or missing in the secret store and in the environment, every answer
\* to the login, over a backend with no slot or with one slot of a designer
CredentialSets == [CredentialNames -> {"", "set"}]

SessionInputs ==
    /\ secrets \in {NoSecrets} \cup {Secrets(v) : v \in CredentialSets}
    /\ environ \in CredentialSets
    /\ auth_reply \in {AuthUid(7), AuthFalse, AuthRaises}
    /\ employees = EmployeeTable
    /\ timesheets = << >>
    /\ tasks = <<Task(1, Pair(7, "Design"), DueDate(TicksPerDay))>>
    /\ slots \in {<< >>,
                  <<Slot(Pair(1, "Bob"), 8, Pair(10, "Alpha"), Pair(1, "T1"), Pair(1, "T1"))>>}
    /\ MainOutputsIdle

(***************************************************************************)
(* Specifications: one per function under test                             *)
(***************************************************************************)
ClassifyIdle ==
    /\ timesheet_hours = 0
    /\ scheduled_hours = 0
    /\ available_hours = 0
    /\ guess = ""

AggregateIdle ==
    /\ project_breakdown_dict = EmptyDict
    /\ aggregated_breakdown = EmptyDict

FormatIdle ==
    /\ breakdown_for_employee = EmptyDict
    /\ total_count = 0
    /\ project_strings = << >>
    /\ final_projects_str = ""

ClassifyInputs ==
    /\ timesheet_hours \in 0..Hours(MaxHours)
    /\ scheduled_hours \in (0 - MaxNegTicks)..Hours(MaxHours)
    /\ available_hours = 0
    /\ guess = ""

Classify ==
    /\ "classify" \notin returned
    /\ returned' = returned \cup {"classify"}
    /\ available_hours' = get_availability_guess_coded(timesheet_hours, scheduled_hours)[1]
    /\ guess' = get_availability_guess_coded(timesheet_hours, scheduled_hours)[2]
    /\ UNCHANGED <<timesheet_hours, scheduled_hours, aggVars, fmtVars, windowVars, bucketVars,
                 configVars, backendVars, mainVars>>

InitClassify ==
    ClassifyInputs /\ AggregateIdle /\ FormatIdle /\ WindowIdle /\ BucketIdle /\ returned = {}
    /\ MainIdle

SpecClassify == InitClassify /\ [][Classify]_vars

InitAggregate ==
    AggregateInputs /\ ClassifyIdle /\ FormatIdle /\ WindowIdle /\ BucketIdle /\ returned = {}
    /\ MainIdle

SpecAggregate == InitAggregate /\ [][Aggregate]_vars

InitFormat ==
    FormatInputs /\ ClassifyIdle /\ AggregateIdle /\ WindowIdle /\ BucketIdle /\ returned = {}
    /\ MainIdle

SpecFormat == InitFormat /\ [][Format]_vars

InitWindow ==
    WindowInputs /\ ClassifyIdle /\ AggregateIdle /\ FormatIdle /\ BucketIdle /\ returned = {}
    /\ MainIdle

SpecWindow == InitWindow /\ [][Window]_vars

InitBucket ==
    BucketInputs /\ ClassifyIdle /\ AggregateIdle /\ FormatIdle /\ WindowIdle /\ returned = {}
    /\ MainIdle

SpecBucket == InitBucket /\ [][Bucket]_vars

InitBreakdown ==
    BreakdownInputs /\ ClassifyIdle /\ AggregateIdle /\ FormatIdle /\ WindowIdle
    /\ BucketIdle /\ returned = {}

SpecBreakdown == InitBreakdown /\ [][Breakdown]_vars

InitCategories ==
    CategoryInputs /\ ClassifyIdle /\ AggregateIdle /\ FormatIdle /\ WindowIdle
    /\ BucketIdle /\ returned = {}

SpecCategories == InitCategories /\ [][CategoryPasses]_vars

InitScheduled ==
    ScheduledInputs /\ ClassifyIdle /\ AggregateIdle /\ FormatIdle /\ WindowIdle
    /\ BucketIdle /\ returned = {}

SpecScheduled == InitScheduled /\ [][Scheduled]_vars

InitListing ==
    ListingInputs /\ ClassifyIdle /\ AggregateIdle /\ FormatIdle /\ WindowIdle
    /\ ListingClock /\ returned = {}

SpecListing == InitListing /\ [][Listing]_vars

InitSession ==
    SessionInputs /\ ClassifyIdle /\ AggregateIdle /\ FormatIdle /\ WindowIdle
    /\ BucketIdle /\ returned = {}

SpecSession == InitSession /\ [][RunAnalysis]_vars

Init ==
    /\ MainInputs
    /\ ClassifyIdle /\ AggregateIdle /\ FormatIdle /\ WindowIdle /\ BucketIdle
    /\ returned = {}

Next == RunAnalysis

Spec == Init /\ [][Next]_vars

(***************************************************************************)
(* aggregate_project_breakdowns: properties                                *)
(***************************************************************************)
RECURSIVE SumOverSet(_, _)
SumOverSet(f, S) ==
    IF S = {} THEN 0
    ELSE LET x == CHOOSE y \in S : TRUE IN f[x] + SumOverSet(f, S \ {x})

\* the (designer, project, type) positions of a per-person breakdown
BreakdownCellsOf(b) ==
    UNION {UNION {{<<i, j, k>> : k \in DOMAIN b[i][2][j][2]} : j \in DOMAIN b[i][2]} :
              i \in DOMAIN b}

BreakdownTotal(b) ==
    SumOverSet([c \in BreakdownCellsOf(b) |-> b[c[1]][2][c[2]][2][c[3]][2]],
               BreakdownCellsOf(b))

\* the (type, project) positions of an aggregated breakdown
AggregatedCellsOf(a) == UNION {{<<i, j>> : j \in DOMAIN a[i][2]} : i \in DOMAIN a}

AggregatedTotal(a) ==
    SumOverSet([c \in AggregatedCellsOf(a) |-> a[c[1]][2][c[2]][2]], AggregatedCellsOf(a))

\* C3: conservation: the counts of the aggregated breakdown add up to the
\* counts of the per-person breakdown, over all persons, projects and types.
C3_Conservation ==
    "aggregate" \in returned =>
        AggregatedTotal(aggregated_breakdown) = BreakdownTotal(project_breakdown_dict)

\* two cells of the input were merged into one cell of the result
C3_Witness ==
    /\ "aggregate" \in returned
    /\ \E c1, c2 \in BreakdownCellsOf(project_breakdown_dict) :
          /\ c1 # c2
          /\ project_breakdown_dict[c1[1]][2][c1[2]][1]
               = project_breakdown_dict[c2[1]][2][c2[2]][1]
          /\ TypeKey(project_breakdown_dict[c1[1]][2][c1[2]][2][c1[3]][1])
               = TypeKey(project_breakdown_dict[c2[1]][2][c2[2]][2][c2[3]][1])
    /\ AggregatedTotal(aggregated_breakdown) >= 3

\* the category a cell of the per-person breakdown is read as
ReadAs(project_type) == IF project_type = None THEN "No Type" ELSE project_type

\* the cells of the per-person breakdown for a category and a project
CellsFor(b, c, p) ==
    {x \in BreakdownCellsOf(b) :
        b[x[1]][2][x[2]][1] = p /\ ReadAs(b[x[1]][2][x[2]][2][x[3]][1]) = c}

\* the aggregated count of a category and project, if there is one
HasAggregated(a, c, p) ==
    \E i \in DOMAIN a : a[i][1] = c /\ \E j \in DOMAIN a[i][2] : a[i][2][j][1] = p
AggregatedCount(a, c, p) ==
    LET i == CHOOSE i \in DOMAIN a : a[i][1] = c
        j == CHOOSE j \in DOMAIN a[i][2] : a[i][2][j][1] = p
    IN a[i][2][j][2]

\* the result is the pointwise sum of the argument
PointwiseSum ==
    "aggregate" \in returned =>
        \A c \in CellTypes \cup {"No Type"}, p \in CellProjects \cup {None} :
            LET cells == CellsFor(project_breakdown_dict, c, p)
            IN /\ HasAggregated(aggregated_breakdown, c, p) <=> cells # {}
               /\ cells # {} =>
                     AggregatedCount(aggregated_breakdown, c, p)
                       = SumOverSet([x \in cells |->
                            project_breakdown_dict[x[1]][2][x[2]][2][x[3]][2]], cells)

\* C17: the aggregated breakdown is the pointwise sum of the per-person
\* breakdown: for every category c (None read as "No Type") and project p
\* the count is the sum over all persons, a (category, project) key exists
\* iff some person has that entry, and the argument is left as it was.
C17_AggregateIsPointwiseSum ==
    /\ []PointwiseSum
    /\ [][project_breakdown_dict' = project_breakdown_dict]_vars

\* two persons have the same project, one under no category and one under
\* "No Type", and the result has the single count 3 for it
C17_Witness ==
    /\ "aggregate" \in returned
    /\ Len(project_breakdown_dict) = 2
    /\ \E x \in BreakdownCellsOf(project_breakdown_dict) :
          project_breakdown_dict[x[1]][2][x[2]][2][x[3]][1] = None
    /\ HasAggregated(aggregated_breakdown, "No Type", "Alpha")
    /\ AggregatedCount(aggregated_breakdown, "No Type", "Alpha") = 3
    /\ Cardinality(CellsFor(project_breakdown_dict, "No Type", "Alpha")) = 2

(***************************************************************************)
(* format_project_breakdown_for_employee: properties                       *)
(***************************************************************************)
\* "N CategoryA, M CategoryB, ...": every category from position k on
RECURSIVE ListedCategories(_, _)
ListedCategories(types, k) ==
    IF k > Len(types) THEN ""
    ELSE ToString(types[k][2]) \o " " \o types[k][1]
           \o (IF k < Len(types) THEN ", " \o ListedCategories(types, k + 1) ELSE "")

\* the project strings from position i on, the last two joined by "and" and
\* the earlier ones by commas
RECURSIVE ListedProjects(_, _)
ListedProjects(strings, i) ==
    IF i >= Len(strings) THEN strings[i]
    ELSE strings[i] \o (IF i = Len(strings) - 1 THEN " and " ELSE ", ")
           \o ListedProjects(strings, i + 1)

AlphaOnly == <<<<"Alpha", <<<<"No Type", 1>>>>>>>>
AlphaAndBeta == <<<<"Alpha", <<<<"No Type", 1>>>>>>, <<"Beta", <<<<"Design", 2>>>>>>>>

\* C5: total_count is the sum of all counts; a project renders as its bare
\* name iff it has exactly one category entry, "No Type" with count 1, and
\* otherwise as "Name (N CategoryA, M CategoryB, ...)" listing every category;
\* {Alpha:{No Type:1}} gives (1, "Alpha") and
\* {Alpha:{No Type:1}, Beta:{Design:2}} gives (3, "Alpha and Beta (2 Design)").
C5_TotalAndProjectRendering ==
    "format" \in returned =>
        /\ total_count
             = SumOverSet(
                 [c \in AggregatedCellsOf(breakdown_for_employee) |->
                     breakdown_for_employee[c[1]][2][c[2]][2]],
                 AggregatedCellsOf(breakdown_for_employee))
        /\ Len(project_strings) = Len(breakdown_for_employee)
        /\ \A i \in DOMAIN breakdown_for_employee :
              LET name == breakdown_for_employee[i][1]
                  types == breakdown_for_employee[i][2]
                  bare == types = <<<<"No Type", 1>>>>
              IN /\ project_strings[i] = name <=> bare
                 /\ ~bare =>
                      project_strings[i]
                        = name \o " (" \o ListedCategories(types, 1) \o ")"
        /\ breakdown_for_employee = AlphaOnly
             => (total_count = 1 /\ final_projects_str = "Alpha")
        /\ breakdown_for_employee = AlphaAndBeta
             => (total_count = 3 /\ final_projects_str = "Alpha and Beta (2 Design)")

\* the two-project example has been formatted
C5_Witness ==
    /\ "format" \in returned
    /\ breakdown_for_employee = AlphaAndBeta
    /\ final_projects_str = "Alpha and Beta (2 Design)"

\* C6: the project strings are joined in input order: for two or more, the
\* last two by " and " with no comma before it and the earlier ones by ", ";
\* one project gives its string alone; no project gives total 0 and "".
C6_JoinedWithOneAnd ==
    "format" \in returned =>
        /\ Len(project_strings) = 0 => (total_count = 0 /\ final_projects_str = "")
        /\ Len(project_strings) = 1 => final_projects_str = project_strings[1]
        /\ Len(project_strings) >= 2
             => final_projects_str = ListedProjects(project_strings, 1)

\* three projects have been joined: one comma, then "and"
C6_Witness ==
    /\ "format" \in returned
    /\ Len(project_strings) = 3
    /\ final_projects_str
         = project_strings[1] \o ", " \o project_strings[2] \o " and " \o project_strings[3]

(***************************************************************************)
(* get_sunday_friday_range: properties                                     *)
(***************************************************************************)
\* ordinal 7 (0001-01-07) is a Sunday
IsSunday(date) == date % 7 = 0

\* C7: for today on any weekday, start_of_week is the most recent Sunday on
\* or before today (0 <= today - start <= 6), end_of_week is 5 days after
\* it, and on a Sunday start == today and end == today + 5.
C7_WindowStartsOnLastSunday ==
    "window" \in returned =>
        /\ IsSunday(start_of_week)
        /\ 0 <= today - start_of_week
        /\ today - start_of_week <= 6
        /\ \A d \in (start_of_week + 1)..today : ~IsSunday(d)
        /\ end_of_week = start_of_week + 5
        /\ IsSunday(today) => (start_of_week = today /\ end_of_week = today + 5)

\* the window has been computed on a Sunday
C7_Witness ==
    /\ "window" \in returned
    /\ IsSunday(today)
    /\ start_of_week = today
    /\ end_of_week = today + 5

\* the day before a Sunday
IsSaturday(date) == (date + 1) % 7 = 0

\* C22: the returned window contains today (start <= today <= end) when
\* today is any day but a Saturday; on a Saturday today is the day after
\* end_of_week, outside the window.
C22_WindowContainsTodayButSaturday ==
    "window" \in returned =>
        /\ ~IsSaturday(today) => (start_of_week <= today /\ today <= end_of_week)
        /\ IsSaturday(today) => today = end_of_week + 1

\* the window has been computed on a Saturday and ends the day before
C22_Witness ==
    /\ "window" \in returned
    /\ IsSaturday(today)
    /\ today = end_of_week + 1
    /\ today > end_of_week

\* the window has been computed on a Friday, its last day
C22_WitnessFriday ==
    /\ "window" \in returned
    /\ IsSaturday(today + 1)
    /\ today = end_of_week

(***************************************************************************)
(* Deadline bucketing: properties                                          *)
(***************************************************************************)
\* the positions of the list whose string parses and whose delta_days,
\* the whole days from the clock to the deadline, is in lo..(hi - 1)
DeadlinesWithin(lo, hi) ==
    {i \in DOMAIN aggregated_deadlines :
        /\ aggregated_deadlines[i].kind = "datetime"
        /\ lo * TicksPerDay <= aggregated_deadlines[i].at - now
        /\ aggregated_deadlines[i].at - now < hi * TicksPerDay}

\* the positions whose string parses and whose deadline is not past
DeadlinesNotPast ==
    {i \in DOMAIN aggregated_deadlines :
        /\ aggregated_deadlines[i].kind = "datetime"
        /\ aggregated_deadlines[i].at - now >= 0}

\* C4: a parseable deadline is counted in exactly one bucket when
\* delta_days >= 0 (urgent 0..6, soon 7..13, later from 14) and in none when
\* delta_days < 0: the three counts add up to the parseable deadlines that
\* are not past.
C4_BucketsPartitionNonPast ==
    "bucket" \in returned =>
        /\ red = Cardinality(DeadlinesWithin(0, 7))
        /\ yellow = Cardinality(DeadlinesWithin(7, 14))
        /\ green = Cardinality(DeadlinesNotPast \ (DeadlinesWithin(0, 14)))
        /\ red + yellow + green = Cardinality(DeadlinesNotPast)

\* a past deadline and one exactly seven days ahead have been bucketed
C4_Witness ==
    /\ "bucket" \in returned
    /\ \E i, j \in DOMAIN aggregated_deadlines :
          /\ aggregated_deadlines[i].kind = "datetime"
          /\ aggregated_deadlines[i].at < now
          /\ aggregated_deadlines[j].kind = "datetime"
          /\ aggregated_deadlines[j].at - now = 7 * TicksPerDay
    /\ red = 0 /\ yellow = 1 /\ green = 0

(***************************************************************************)
(* main: properties                                                        *)
(***************************************************************************)
\* a list up to order: how often each element occurs
Occurrences(xs) == [x \in Elements(xs) |-> Cardinality({i \in DOMAIN xs : xs[i] = x})]

DeadlinesOfPerson(emp_id) ==
    IF \E i \in DOMAIN parent_dd_dict : parent_dd_dict[i][1] = emp_id
    THEN parent_dd_dict[CHOOSE i \in DOMAIN parent_dd_dict : parent_dd_dict[i][1] = emp_id][2]
    ELSE {}

\* C9: the flat deadline collection holds a deadline string once per loaded
\* person whose set holds it (no deduplication across persons), and its
\* length is the sum of the sizes of the loaded persons' deadline sets.
C9_FlatDeadlinesKeepDuplicates ==
    outcome = "done" =>
        /\ \A d \in Elements(aggregated_deadlines)
                      \cup UNION {DeadlinesOfPerson(designer_ids[j]) : j \in DOMAIN designer_ids} :
              Cardinality({i \in DOMAIN aggregated_deadlines : aggregated_deadlines[i] = d})
                = Cardinality({j \in DOMAIN designer_ids :
                                  d \in DeadlinesOfPerson(designer_ids[j])})
        /\ Len(aggregated_deadlines)
             = SumSeq([j \in DOMAIN designer_ids |->
                          Cardinality(DeadlinesOfPerson(designer_ids[j]))])

\* two designers hold the same deadline string and it has been collected twice
C9_Witness ==
    /\ outcome = "done"
    /\ Len(designer_ids) = 2
    /\ DeadlinesOfPerson(designer_ids[1]) = DeadlinesOfPerson(designer_ids[2])
    /\ Len(aggregated_deadlines) = 2
    /\ aggregated_deadlines[1] = aggregated_deadlines[2]

\* the records that carry a person reference
SlotsWithPerson == SelectSeq(slots, LAMBDA r : r.resource_id.tag # "none")
TimesheetsWithPerson == SelectSeq(timesheets, LAMBDA r : r.employee_id.tag # "none")

\* C10: in the four grouping passes (timesheet hours, scheduled hours and
\* projects, categories, deadlines) a record without a person reference is
\* dropped: the run completes, no aggregate is created for it, and every
\* aggregate is what it would be had the record not been returned.
C10_PersonlessRecordsDropped ==
    outcome = "done" =>
        /\ timesheet_dict = get_all_timesheet_hours(TimesheetsWithPerson, designer_ids)
        /\ scheduled_dict = get_all_scheduled_data(SlotsWithPerson, designer_ids)
        /\ subtask_cat_dict
             = get_subtask_service_categories(SlotsWithPerson, tasks, designer_ids)
        /\ parent_dd_dict = get_parent_task_due_dates(SlotsWithPerson, tasks, designer_ids)
        /\ DictKeys(timesheet_dict) \cup DictKeys(scheduled_dict)
             \cup DictKeys(subtask_cat_dict) \cup DictKeys(parent_dd_dict)
             \subseteq Elements(designer_ids)

\* a run has met a slot with project, subtask and parent task but no person,
\* and a timesheet line with no person, next to a record of a designer
C10_Witness ==
    /\ outcome = "done"
    /\ \E i \in DOMAIN slots :
          /\ slots[i].resource_id.tag = "none"
          /\ slots[i].project_id.tag # "none"
          /\ slots[i].x_studio_sub_task_1.tag # "none"
          /\ slots[i].x_studio_parent_task.tag # "none"
    /\ \E i \in DOMAIN timesheets : timesheets[i].employee_id.tag = "none"
    /\ scheduled_dict # EmptyDict
    /\ subtask_cat_dict # EmptyDict
    /\ parent_dd_dict # EmptyDict

\* C11: a slot without a person reference contributes to no downstream
\* output: the per-person aggregates, the project breakdown and the
\* urgent-deadline listing of a run are what they would be without it.
C11_PersonlessSlotContributesNowhere ==
    outcome = "done" =>
        /\ scheduled_dict = get_all_scheduled_data(SlotsWithPerson, designer_ids)
        /\ subtask_cat_dict
             = get_subtask_service_categories(SlotsWithPerson, tasks, designer_ids)
        /\ parent_dd_dict = get_parent_task_due_dates(SlotsWithPerson, tasks, designer_ids)
        /\ project_breakdown_dict = get_project_breakdown(SlotsWithPerson, tasks, designer_ids)
        /\ deadlines_details
             = get_deadlines_for_week(SlotsWithPerson, tasks, employees, designer_ids, now)

\* the slots of a designer, by position in the backend's answer
SlotsOfDesigner(emp_id) ==
    {j \in DOMAIN slots :
        slots[j].resource_id.tag # "none" /\ slots[j].resource_id.id = emp_id}

\* the designers scheduled on a task whose due date does not parse
OnMalformedTask(emp_id) ==
    \E j \in SlotsOfDesigner(emp_id) :
        /\ slots[j].x_studio_parent_task.tag # "none"
        /\ \E t \in DOMAIN tasks :
              /\ tasks[t].id = slots[j].x_studio_parent_task.id
              /\ tasks[t].x_studio_internal_due_date_1.kind = "malformed"

\* C15: a due date that does not parse does not abort the run: the run ends
\* without error, the raw text is kept as a deadline of every designer
\* scheduled on the task, and the bucket counts are those of the deadlines
\* that parse, the text being counted in none of the three.
C15_MalformedDateKeptThenSkipped ==
    (runs > 0 /\ designer_ids # << >>) =>
        /\ outcome = "done" /\ error = ""
        /\ \A i \in DOMAIN designer_ids :
              OnMalformedTask(designer_ids[i])
                 => MalformedStr \in DeadlinesOfPerson(designer_ids[i])
        /\ LET parsed == SelectSeq(aggregated_deadlines, LAMBDA d : d.kind = "datetime")
           IN /\ red + yellow + green <= Len(parsed)
              /\ red = DeadlineCounts(parsed, now).red
              /\ yellow = DeadlineCounts(parsed, now).yellow
              /\ green = DeadlineCounts(parsed, now).green

\* a designer holds a malformed deadline next to one due tomorrow, which is
\* the only one counted
C15_Witness ==
    /\ outcome = "done"
    /\ \E i \in DOMAIN designer_ids :
          /\ OnMalformedTask(designer_ids[i])
          /\ Cardinality(DeadlinesOfPerson(designer_ids[i])) = 2
    /\ Len(aggregated_deadlines) = 2
    /\ red = 1 /\ yellow = 0 /\ green = 0

\* no slot the backend returns refers to a parent task
NoParentTasks == \A j \in DOMAIN slots : slots[j].x_studio_parent_task.tag = "none"

\* C16: empty results are no errors.  When no designer is found the run ends
\* without error and with every aggregate empty, as each aggregation is for
\* no person; when designers are found but no slot has a parent task, the
\* deadline mapping, the flat deadline collection and the urgent listing are
\* empty and the three bucket counts are 0.
C16_EmptyResultsAreNotErrors ==
    /\ outcome = "no_designers" =>
          /\ error = ""
          /\ timesheet_dict = EmptyDict /\ scheduled_dict = EmptyDict
          /\ subtask_cat_dict = EmptyDict /\ parent_dd_dict = EmptyDict
          /\ get_all_timesheet_hours(timesheets, designer_ids) = EmptyDict
          /\ get_all_scheduled_data(slots, designer_ids) = EmptyDict
          /\ get_subtask_service_categories(slots, tasks, designer_ids) = EmptyDict
          /\ get_parent_task_due_dates(slots, tasks, designer_ids) = EmptyDict
    /\ (outcome = "done" /\ NoParentTasks) =>
          /\ error = ""
          /\ parent_dd_dict = EmptyDict
          /\ aggregated_deadlines = << >>
          /\ deadlines_details = << >>
          /\ red = 0 /\ yellow = 0 /\ green = 0

\* a run found two designers on slots with subtasks but without parent tasks
C16_Witness ==
    /\ outcome = "done"
    /\ NoParentTasks
    /\ Len(designer_ids) = 2
    /\ subtask_cat_dict # EmptyDict
    /\ aggregated_deadlines = << >>

\* a run found slots and timesheet lines but no designer
C16_WitnessNoDesigners ==
    /\ outcome = "no_designers"
    /\ slots # << >>
    /\ timesheets # << >>

\* the people of the backend in dictionary order, case ignored
NamesInOrder == <<"ann", "Bob", "Cy">>
PlaceOf(name) == CHOOSE i \in DOMAIN NamesInOrder : NamesInOrder[i] = name

\* the loaded person with an id
Loaded(emp_id) == employees[CHOOSE i \in DOMAIN employees : employees[i].id = emp_id]

\* the record main would build for a person from that person's records alone
RecordFromOwnFacts(emp_id) ==
    LET own_slots == SelectSeq(slots,
                        LAMBDA r : r.resource_id.tag # "none" /\ r.resource_id.id = emp_id)
        own_lines == SelectSeq(timesheets,
                        LAMBDA r : r.employee_id.tag # "none" /\ r.employee_id.id = emp_id)
    IN DesignerRecord(Loaded(emp_id),
          get_all_timesheet_hours(own_lines, <<emp_id>>),
          get_all_scheduled_data(own_slots, <<emp_id>>),
          get_subtask_service_categories(own_slots, tasks, <<emp_id>>),
          get_parent_task_due_dates(own_slots, tasks, <<emp_id>>))

\* C19: the run produces one record per loaded person, in dictionary order
\* of the names with case ignored; each record is the one built from that
\* person's own timesheet lines and slots, whatever the other persons'
\* records are; and a person with no timesheet line and no slot gets 40
\* available hours, "Fully Available" and empty sets.
C19_OneRecordPerPersonSorted ==
    /\ outcome = "done" =>
          /\ Len(designer_info_list) = Len(designer_ids)
          /\ \A i, j \in DOMAIN designer_ids : designer_ids[i] = designer_ids[j] => i = j
          /\ \A i \in DOMAIN designer_ids :
                Cardinality({k \in DOMAIN designer_info_list :
                                designer_info_list[k] = RecordFromOwnFacts(designer_ids[i])})
                  = 1
          /\ \A k, l \in DOMAIN designer_info_list :
                k < l => PlaceOf(designer_info_list[k].name)
                           < PlaceOf(designer_info_list[l].name)
    /\ \A i \in DOMAIN employees :
          DesignerRecord(employees[i], EmptyDict, EmptyDict, EmptyDict, EmptyDict)
            = [name |-> employees[i].name, capacity |-> 40 * TicksPerHour,
               guess |-> "Fully Available", projects |-> {},
               subtask_categories |-> {}, parent_deadlines |-> {}]

\* Bob is loaded before ann and listed after her; only one of them has a
\* timesheet line, and their records differ in hours and projects
C19_Witness ==
    /\ outcome = "done"
    /\ designer_ids = <<1, 2>>
    /\ designer_info_list[1].name = "ann"
    /\ designer_info_list[2].name = "Bob"
    /\ Len(timesheet_dict) = 1
    /\ designer_info_list[1].capacity # designer_info_list[2].capacity
    /\ designer_info_list[1].projects # designer_info_list[2].projects

\* the configuration in force: the secret store's section when there is one,
\* the environment otherwise
Configured == IF secrets.odoo THEN secrets.values ELSE environ
ConfigurationComplete == \A c \in CredentialNames : Configured[c] # ""
SessionGranted == auth_reply.kind = "uid" /\ auth_reply.uid # 0

IsDataQuery(call) == \E k \in DOMAIN DataQueries : DataQueries[k] = call

\* C20: in a run the configuration is checked before any backend call: with
\* a credential missing no call is made at all; a data query is made only
\* after the one authentication call has returned a session id; with a
\* credential missing or the login refused or failing, the run stops with
\* an error shown, aggregates nothing, requests no document, and makes no
\* second authentication call.
C20_ConfigThenLoginThenQueries ==
    runs > 0 =>
        /\ ~ConfigurationComplete => calls = << >>
        /\ \A k \in DOMAIN calls :
              IsDataQuery(calls[k]) =>
                 /\ ConfigurationComplete /\ SessionGranted
                 /\ k > 1 /\ calls[1] = "common.authenticate"
        /\ Cardinality({k \in DOMAIN calls : calls[k] = "common.authenticate"}) <= 1
        /\ (~ConfigurationComplete \/ ~SessionGranted) =>
              /\ outcome = "stopped"
              /\ error # ""
              /\ \A k \in DOMAIN calls : ~IsDataQuery(calls[k])
              /\ designer_ids = << >> /\ designer_info_list = << >>
              /\ timesheet_dict = EmptyDict /\ scheduled_dict = EmptyDict
              /\ subtask_cat_dict = EmptyDict /\ parent_dd_dict = EmptyDict
              /\ project_breakdown_dict = EmptyDict /\ aggregated_breakdown = EmptyDict
              /\ aggregated_deadlines = << >> /\ deadlines_details = << >>
              /\ document = "none"

\* the environment holds all four credentials, the login is refused: the
\* run has made the authentication call and nothing else, over a backend
\* that has a designer's slot
C20_Witness ==
    /\ runs = 1
    /\ ~secrets.odoo
    /\ ConfigurationComplete
    /\ auth_reply = AuthFalse
    /\ slots # << >>
    /\ calls = <<"common.authenticate">>
    /\ outcome = "stopped"

\* a credential of the secret store is empty: the run has made no call
C20_WitnessMissingCredential ==
    /\ runs = 1
    /\ secrets.odoo
    /\ ~ConfigurationComplete
    /\ calls = << >>
    /\ outcome = "stopped"

\* the login is granted: the queries follow the authentication call
C20_WitnessGranted ==
    /\ runs = 1
    /\ outcome = "done"
    /\ Len(calls) = 1 + Len(DataQueries)
    /\ document = "requested"

\* the labels a person's breakdown holds, over all the person's projects
BreakdownLabels(emp_id) ==
    LET emp_breakdown == DictGet(project_breakdown_dict, emp_id, EmptyDict)
    IN UNION {DictKeys(emp_breakdown[i][2]) : i \in DOMAIN emp_breakdown}

CategorySet(emp_id) == DictGet(subtask_cat_dict, emp_id, {})

\* C21: after the category pass and the breakdown pass of one run over the
\* same slot and task records, every label other than "No Type" in a
\* person's breakdown is a member of that person's category set.
C21_BreakdownLabelsAreCategories ==
    "category_passes" \in returned =>
        \A emp_id \in DictKeys(project_breakdown_dict) :
            BreakdownLabels(emp_id) \ {"No Type"} \subseteq CategorySet(emp_id)

\* the inclusion as far as the code provides it: for the labels that are
\* not empty
C21_NamedLabelsAreCategories ==
    "category_passes" \in returned =>
        \A emp_id \in DictKeys(project_breakdown_dict) :
            BreakdownLabels(emp_id) \ {"No Type", ""} \subseteq CategorySet(emp_id)

\* a person has a counted slot under a named category, and a category from
\* a slot without project that no breakdown label matches
C21_NamedWitness ==
    /\ "category_passes" \in returned
    /\ \E emp_id \in DictKeys(project_breakdown_dict) :
          /\ "Design" \in BreakdownLabels(emp_id)
          /\ "Motion" \in CategorySet(emp_id) \ BreakdownLabels(emp_id)

\* a slot with a project whose subtask's category has an empty name: the
\* breakdown holds the empty label, the category set does not
C21_EmptyLabelReached ==
    /\ "category_passes" \in returned
    /\ \E emp_id \in DictKeys(project_breakdown_dict) :
          /\ "" \in BreakdownLabels(emp_id)
          /\ "" \notin CategorySet(emp_id)

(***************************************************************************)
(* get_project_breakdown: properties                                       *)
(***************************************************************************)
\* the slots of a person, by position in the backend's answer
SlotsOfPerson(emp_id) ==
    {i \in DOMAIN slots :
        Truthy(slots[i].resource_id) /\ FieldId(slots[i].resource_id) = emp_id}

\* the sum of all counts of a person's breakdown
PersonTotal(emp_id) ==
    BreakdownTotal(<<<<emp_id, DictGet(project_breakdown_dict, emp_id, EmptyDict)>>>>)

\* C12 as stated: for every person the counts of the person's breakdown add
\* up to the number of the person's slots.
C12_CountsEqualSlots ==
    "breakdown" \in returned =>
        \A i \in DOMAIN designer_ids :
            PersonTotal(designer_ids[i]) = Cardinality(SlotsOfPerson(designer_ids[i]))

\* C12 as amended: for every person the counts of the person's breakdown add
\* up to the number of the person's slots that carry a project reference.
C12_CountsEqualSlotsWithProject ==
    "breakdown" \in returned =>
        /\ DictKeys(project_breakdown_dict) \subseteq Elements(designer_ids)
        /\ \A i \in DOMAIN designer_ids :
              PersonTotal(designer_ids[i])
                = Cardinality({j \in SlotsOfPerson(designer_ids[i]) :
                                  Truthy(slots[j].project_id)})

\* a person has one slot with a project and one without: one is counted
C12_Witness ==
    /\ "breakdown" \in returned
    /\ \E i \in DOMAIN designer_ids :
          /\ Cardinality(SlotsOfPerson(designer_ids[i])) = 2
          /\ \E j \in SlotsOfPerson(designer_ids[i]) : ~Truthy(slots[j].project_id)
          /\ PersonTotal(designer_ids[i]) = 1

(***************************************************************************)
(* get_all_scheduled_data: properties                                      *)
(***************************************************************************)
\* a person's accumulated scheduled hours after the first k slots
HoursAfter(k, emp_id) ==
    DictGet(get_all_scheduled_data(SubSeq(slots, 1, k), designer_ids), emp_id,
            [hours |-> 0, projects |-> {}]).hours

\* C13: every duration added is >= 0: a person's accumulated scheduled hours
\* are never negative and never decrease when a further slot is added.
C13_ScheduledHoursNeverDecrease ==
    "scheduled" \in returned =>
        \A i \in DOMAIN designer_ids :
            /\ DictGet(scheduled_dict, designer_ids[i],
                       [hours |-> 0, projects |-> {}]).hours >= 0
            /\ \A k \in 1..Len(slots) :
                  HoursAfter(k, designer_ids[i]) >= HoursAfter(k - 1, designer_ids[i])

(***************************************************************************)
(* get_deadlines_for_week: properties                                      *)
(***************************************************************************)
\* the task record the lookup returns for a slot's parent task, if any
ParentResolved(slot) ==
    /\ slot.x_studio_parent_task.tag # "none"
    /\ \E i \in DOMAIN tasks : tasks[i].id = slot.x_studio_parent_task.id
ParentTask(slot) ==
    tasks[CHOOSE i \in DOMAIN tasks : tasks[i].id = slot.x_studio_parent_task.id]

\* whole days from the clock to a task's due date read at UTC+3
DueInDays(task) ==
    (task.x_studio_internal_due_date_1.at + 3 * TicksPerHour - now) \div TicksPerDay

\* the slot's parent task has a due date that parses and lies in the urgent
\* bucket of the deadline chart
DueNextWeek(slot) ==
    /\ ParentResolved(slot)
    /\ ParentTask(slot).x_studio_internal_due_date_1.kind = "datetime"
    /\ BucketOf(DueInDays(ParentTask(slot))) = "red"

\* what a listed record shows of its slot and task
Shown(slot) ==
    LET cat == ParentTask(slot).x_studio_service_category_1
    IN [project |-> IF slot.project_id.tag = "none" THEN None
                    ELSE IF slot.project_id.tag = "pair" THEN slot.project_id.label
                    ELSE ToString(slot.project_id.id),
        project_type |-> IF cat.tag = "none" THEN None
                         ELSE IF cat.tag = "pair" THEN cat.label ELSE ToString(cat.id)]

\* C14: the listing holds, in slot order, one record for exactly the slots
\* whose resolved parent task has a deadline that parses with
\* 0 <= delta_days < 7 (the urgent bucket of the chart); each record carries
\* its slot's project and its task's category, and no record has a deadline
\* with delta_days < 0 or delta_days >= 7.
C14_ListingIsUrgentBucket ==
    "listing" \in returned =>
        LET due == SelectSeq(slots, DueNextWeek)
        IN /\ Len(deadlines_details) = Len(due)
           /\ \A k \in DOMAIN due :
                 /\ deadlines_details[k].project = Shown(due[k]).project
                 /\ deadlines_details[k].project_type = Shown(due[k]).project_type
           /\ \A k \in DOMAIN deadlines_details :
                 /\ deadlines_details[k].deadline.kind = "datetime"
                 /\ (deadlines_details[k].deadline.at - now) \div TicksPerDay \in 0..6

\* of two slots on tasks with a due date, one is listed (six days ahead,
\* with project and category) and one is not
C14_Witness ==
    /\ "listing" \in returned
    /\ Len(slots) = 2
    /\ \A i \in DOMAIN slots :
          /\ ParentResolved(slots[i])
          /\ ParentTask(slots[i]).x_studio_internal_due_date_1.kind = "datetime"
    /\ Len(deadlines_details) = 1
    /\ deadlines_details[1].project = "Alpha"
    /\ deadlines_details[1].project_type = "Design"
    /\ (deadlines_details[1].deadline.at - now) \div TicksPerDay = 6

\* the category of a slot's subtask, when the slot has a subtask, the lookup
\* returns its task and the task carries a category
HasCategory(slot) ==
    /\ slot.x_studio_sub_task_1.tag # "none"
    /\ \E t \in DOMAIN tasks :
          /\ tasks[t].id = slot.x_studio_sub_task_1.id
          /\ tasks[t].x_studio_service_category_1.tag # "none"
CategoryOf(slot) ==
    LET cat == tasks[CHOOSE t \in DOMAIN tasks :
                        tasks[t].id = slot.x_studio_sub_task_1.id].x_studio_service_category_1
    IN IF cat.tag = "pair" THEN cat.label ELSE ToString(cat.id)

\* the key a counted slot is to be filed under
FiledUnder(slot) == IF HasCategory(slot) THEN CategoryOf(slot) ELSE "No Type"

ProjectNameOf(slot) ==
    IF slot.project_id.tag = "pair" THEN slot.project_id.label
    ELSE ToString(slot.project_id.id)

\* a cell of the returned breakdown, if there is one
CellOf(emp_id, project, key) ==
    DictGet(DictGet(DictGet(project_breakdown_dict, emp_id, EmptyDict), project, EmptyDict),
            key, 0)
HasCell(emp_id, project, key) ==
    DictHas(DictGet(DictGet(project_breakdown_dict, emp_id, EmptyDict), project, EmptyDict),
            key)

\* C18: a counted slot is filed under its subtask's category when the slot
\* has a subtask whose task record carries one, and under "No Type"
\* otherwise (no subtask, a task without category, a task the lookup did not
\* return); each counted slot adds 1 to exactly one cell, so every cell
\* holds the number of the person's slots of that project filed under it.
C18_SlotsFiledByCategory ==
    "breakdown" \in returned =>
        \A i \in DOMAIN designer_ids, p \in {"Alpha", "11"},
           k \in {"No Type", "Design", "8", None} :
            LET filed == {j \in SlotsOfPerson(designer_ids[i]) :
                             /\ slots[j].project_id.tag # "none"
                             /\ ProjectNameOf(slots[j]) = p
                             /\ FiledUnder(slots[j]) = k}
            IN /\ CellOf(designer_ids[i], p, k) = Cardinality(filed)
               /\ HasCell(designer_ids[i], p, k) <=> filed # {}

\* one person has a slot filed under its subtask's category and a slot
\* whose subtask the lookup did not return, filed under "No Type"
C18_Witness ==
    /\ "breakdown" \in returned
    /\ \E i \in DOMAIN designer_ids, j1, j2 \in DOMAIN slots :
          /\ {j1, j2} \subseteq SlotsOfPerson(designer_ids[i])
          /\ HasCategory(slots[j1])
          /\ slots[j2].x_studio_sub_task_1.id = 9
          /\ slots[j1].project_id = slots[j2].project_id
          /\ slots[j1].project_id.tag # "none"
          /\ CellOf(designer_ids[i], ProjectNameOf(slots[j1]), "No Type") = 1
          /\ CellOf(designer_ids[i], ProjectNameOf(slots[j1]), CategoryOf(slots[j1])) = 1

Classified == "classify" \in returned

MaxOf(a, b) == CHOOSE m \in {a, b} : m >= a /\ m >= b

\* C1: once the classifier has returned, available_hours is
\* max(0, 40 - (timesheet_hours + scheduled_hours)) and is never negative,
\* also when timesheet_hours + scheduled_hours exceeds 40.
C1_AvailableIsClampedRemainder ==
    Classified =>
        /\ available_hours
             = MaxOf(0, 40 * TicksPerHour - (timesheet_hours + scheduled_hours))
        /\ available_hours >= 0

\* an overcommitted person has been classified
C1_Witness ==
    /\ Classified
    /\ timesheet_hours + scheduled_hours > 40 * TicksPerHour
    /\ available_hours = 0

\* C2: the label is one of three and is decided by available_hours alone:
\* Fully iff >= 15, Partially iff strictly between 0 and 15, Not iff 0;
\* classify(25,0) = (15, Fully), classify(26,0) = (14, Partially),
\* classify(40,5) = (0, Not).
C2_LabelByThresholds ==
    Classified =>
        /\ guess \in {"Fully Available", "Partially Available", "Not Available"}
        /\ guess = "Fully Available" <=> available_hours >= 15 * TicksPerHour
        /\ guess = "Partially Available"
             <=> (0 < available_hours /\ available_hours < 15 * TicksPerHour)
        /\ guess = "Not Available" <=> available_hours = 0
        /\ (timesheet_hours = 25 * TicksPerHour /\ scheduled_hours = 0)
             => (available_hours = 15 * TicksPerHour /\ guess = "Fully Available")
        /\ (timesheet_hours = 26 * TicksPerHour /\ scheduled_hours = 0)
             => (available_hours = 14 * TicksPerHour /\ guess = "Partially Available")
        /\ (timesheet_hours = 40 * TicksPerHour /\ scheduled_hours = 5 * TicksPerHour)
             => (available_hours = 0 /\ guess = "Not Available")

\* the boundary case classify(25, 0) has been classified
C2_Witness ==
    /\ Classified
    /\ timesheet_hours = 25 * TicksPerHour
    /\ scheduled_hours = 0
    /\ guess = "Fully Available"

====
